---- MODULE Spec2Model ----
(***************************************************************************)
(* State-machine model of src/models.py: the fully-connected               *)
(* winner-take-all autoencoder FullyConnectedWTA.                          *)
(*                                                                         *)
(* Tensors are modelled exactly over the integers (a matrix is a sequence  *)
(* of rows, a vector a sequence of numbers); float32 rounding is not       *)
(* modelled.  The TensorFlow operations the source calls (relu_layer,      *)
(* top_k, unstack, stack, transpose, reshape, scatter_nd, matmul,          *)
(* Optimizer.minimize, Session.run) are modelled by their documented       *)
(* behaviour, one operator per call.                                       *)
(***************************************************************************)
EXTENDS Integers, Sequences, FiniteSets, TLC

VARIABLES
    state,        \* "Uninitialized" | "Ready" | "Failed" (constructor raised)
    config,       \* the constructor arguments kept in self.* (models.py:41-51)
    store,        \* the variable scope: name -> tensor (tf.get_variable)
    global_step,  \* the 'global_step' variable (models.py:57-60)
    call,         \* the last public call and its arguments
    tensors,      \* graph node -> value, for the nodes the last Session.run evaluated
    ret,          \* what the last call returned, or the exception it raised
    fit_calls     \* history: step calls with forward_only=False that passed shape validation

vars == <<state, config, store, global_step, call, tensors, ret, fit_calls>>

-----------------------------------------------------------------------------
(* Bounds of the model *)

MaxSteps == 2     \* training steps explored from one constructed model

-----------------------------------------------------------------------------
(* Integer tensor arithmetic *)

\* A sequence given as a function, as the tuple of its values: each entry is
\* computed once, when the tensor is built, and not again at every use
Val(f) == f \o <<>>

\* The same for a function on variable names
Tab(f) == f @@ <<>>

RECURSIVE SumSeq(_)
SumSeq(s) == IF s = <<>> THEN 0 ELSE Head(s) + SumSeq(Tail(s))

Rows(m) == Len(m)
Cols(m) == IF Len(m) = 0 THEN 0 ELSE Len(m[1])
Shape(m) == <<Rows(m), Cols(m)>>

Transpose(m) == Val([j \in 1..Cols(m) |-> Val([i \in 1..Rows(m) |-> m[i][j]])])

MatMul(a, b) ==
    Val([i \in 1..Rows(a) |->
        Val([j \in 1..Cols(b) |-> SumSeq(Val([t \in 1..Cols(a) |-> a[i][t] * b[t][j]]))])])

\* matrix + vector, the vector broadcast over the rows
AddBias(m, b) == Val([i \in 1..Rows(m) |-> Val([j \in 1..Cols(m) |-> m[i][j] + b[j]])])

\* elementwise product of two matrices of one shape
Hadamard(a, b) == Val([i \in 1..Rows(a) |-> Val([j \in 1..Cols(a) |-> a[i][j] * b[i][j]])])

MatAdd(a, b) == Val([i \in 1..Rows(a) |-> Val([j \in 1..Cols(a) |-> a[i][j] + b[i][j]])])

\* column sums of a matrix with c columns
ColSums(m, c) == Val([j \in 1..c |-> SumSeq(Val([i \in 1..Rows(m) |-> m[i][j]]))])

Eye(n) == Val([i \in 1..n |-> Val([j \in 1..n |-> IF i = j THEN 1 ELSE 0])])

Relu(x) == IF x > 0 THEN x ELSE 0

Sgn(x) == IF x > 0 THEN 1 ELSE IF x < 0 THEN -1 ELSE 0

-----------------------------------------------------------------------------
(* Constructor arguments: FullyConnectedWTA.__init__ *)

\* weight_initializer argument: the value it gives entry [i, j] of a weight
\* matrix.  Two deterministic initializers stand for the seeded Gaussian.
WeightInitializer(kind, i, j) ==
    IF kind = "alt" THEN (IF (i + j) % 2 = 0 THEN 1 ELSE -1)
    ELSE i - j + 1

\* The argument tuples the constructor is called with.  sparsity is the
\* fraction <<numerator, denominator>>.  __init__ accepts every one of them:
\* it checks nothing (models.py:41-52).
ValidArgs ==
    [input_dim : {2}, batch_size : {3}, sparsity : {<<1, 3>>, <<2, 3>>, <<1, 1>>},
     hidden_units : {2}, encode_layers : {1, 2}, learning_rate : {1},
     tie_weights : BOOLEAN, weight_initializer : {"alt", "ramp"},
     bias_initializer : {0}]

InvalidArgs ==
    [input_dim : {2}, batch_size : {3}, sparsity : {<<2, 3>>},
     hidden_units : {2}, encode_layers : {0}, learning_rate : {1},
     tie_weights : BOOLEAN, weight_initializer : {"alt"},
     bias_initializer : {0}]
    \cup
    [input_dim : {2}, batch_size : {3}, sparsity : {<<1, 4>>, <<3, 2>>},
     hidden_units : {2}, encode_layers : {1}, learning_rate : {1},
     tie_weights : {TRUE}, weight_initializer : {"alt"},
     bias_initializer : {0}]

ConstructorArgs == ValidArgs \cup InvalidArgs

NoConfig == [input_dim |-> 0]

\* k = int(self.sparsity * self.batch_size)
TopKCount(cfg) == (cfg.sparsity[1] * cfg.batch_size) \div cfg.sparsity[2]

-----------------------------------------------------------------------------
(* The variable scope *)

EncodeW(n) == <<"encode_W", n>>
EncodeB(n) == <<"encode_b", n>>
DecodeB == <<"decode_b", 0>>
DecodeW == <<"decode_W", 0>>

\* The layer numbers _initialize_vars builds, in order: range(encode_layers - 1)
\* and then encode_layers - 1
LayerNums(cfg) ==
    Val([n \in 1..(IF cfg.encode_layers > 1 THEN cfg.encode_layers - 1 ELSE 0) |-> n - 1])
        \o <<cfg.encode_layers - 1>>

NumLayers(cfg) == Len(LayerNums(cfg))

\* output_dim of the n-th layer built
LayerDim(cfg, n) == IF n = NumLayers(cfg) THEN cfg.hidden_units ELSE cfg.input_dim

GetLastEncodeLayerName(cfg) == EncodeW(cfg.encode_layers - 1)

InitMatrix(cfg, r, c) ==
    Val([i \in 1..r |-> Val([j \in 1..c |-> WeightInitializer(cfg.weight_initializer, i, j)])])

InitVector(cfg, c) == Val([j \in 1..c |-> cfg.bias_initializer])

\* The variables get_variable creates while the graph is built
VariableNames(cfg) ==
    {EncodeW(LayerNums(cfg)[n]) : n \in 1..NumLayers(cfg)}
        \cup {EncodeB(LayerNums(cfg)[n]) : n \in 1..NumLayers(cfg)}
        \cup {DecodeB}
        \cup (IF cfg.tie_weights THEN {} ELSE {DecodeW})

LayerIndex(cfg, num) == CHOOSE n \in 1..NumLayers(cfg) : LayerNums(cfg)[n] = num

InitialStore(cfg) ==
    Tab([v \in VariableNames(cfg) |->
        IF v[1] = "encode_W"
            THEN InitMatrix(cfg, cfg.input_dim, LayerDim(cfg, LayerIndex(cfg, v[2])))
        ELSE IF v[1] = "encode_b"
            THEN InitVector(cfg, LayerDim(cfg, LayerIndex(cfg, v[2])))
        ELSE IF v = DecodeB
            THEN InitVector(cfg, cfg.input_dim)
        ELSE InitMatrix(cfg, cfg.hidden_units, cfg.input_dim)])

-----------------------------------------------------------------------------
(* The encoder *)

\* tf.nn.relu_layer(x, W, b) = relu(x W + b)
ReluLayer(x, W, b) ==
    LET z == AddBias(MatMul(x, W), b)
    IN  Val([i \in 1..Rows(z) |-> Val([j \in 1..Cols(z) |-> Relu(z[i][j])])])

\* Activations(st, cfg, x)[n] is the input of the n-th layer built, and
\* Activations(st, cfg, x)[NumLayers + 1] is self.encoded
RECURSIVE ActivationsUpTo(_, _, _, _)
ActivationsUpTo(st, cfg, x, n) ==
    IF n = 0 THEN <<x>>
    ELSE LET prev == ActivationsUpTo(st, cfg, x, n - 1)
             num == LayerNums(cfg)[n]
         IN  Append(prev, ReluLayer(prev[n], st[EncodeW(num)], st[EncodeB(num)]))

Activations(st, cfg, x) == ActivationsUpTo(st, cfg, x, NumLayers(cfg))

Encoded(st, cfg, x) == Activations(st, cfg, x)[NumLayers(cfg) + 1]

-----------------------------------------------------------------------------
(* The lifetime sparsity mask: models.py:68-87.  Indices are 0-based as in  *)
(* the source; sequences are 1-based.                                       *)

\* tf.nn.top_k on one row: the number of entries that come before entry i,
\* larger values first and, among equal values, the lower index first
RankSmallestFirst(row, i) ==
    Cardinality({j \in 1..Len(row) : row[j] < row[i] \/ (row[j] = row[i] /\ j < i)})

Rank(row, i) ==
    Cardinality({j \in 1..Len(row) : row[j] > row[i] \/ (row[j] = row[i] /\ j < i)})

\* tf.nn.top_k(m, k, sorted=False)[1]: for each row the indices of its k
\* largest entries.  The order within a row is left open by sorted=False;
\* the largest-first order is the one modelled.
TopKIndices(m, k) ==
    Val([h \in 1..Rows(m) |->
        Val([n \in 1..k |-> (CHOOSE i \in 1..Cols(m) : Rank(m[h], i) = n - 1) - 1])])

\* tf.unstack(t, axis=1) of a matrix with k columns: the list of its columns
Unstack1(t, k) == Val([n \in 1..k |-> Val([h \in 1..Rows(t) |-> t[h][n]])])

\* tf.range(n)
Range(n) == Val([h \in 1..n |-> h - 1])

\* _interleave(xs, ys) = [val for pair in zip(xs, ys) for val in pair]
InterleaveSwapped(xs, ys) ==
    LET n == IF Len(xs) < Len(ys) THEN Len(xs) ELSE Len(ys)
    IN  Val([m \in 1..(2 * n) |-> IF m % 2 = 1 THEN ys[(m + 1) \div 2] ELSE xs[m \div 2]])

Interleave(xs, ys) ==
    LET n == IF Len(xs) < Len(ys) THEN Len(xs) ELSE Len(ys)
    IN  Val([m \in 1..(2 * n) |-> IF m % 2 = 1 THEN xs[(m + 1) \div 2] ELSE ys[m \div 2]])

\* tf.reshape(m, [-1, 2]): the entries of m in row-major order, two by two
ReshapePairs(m) ==
    LET c == Cols(m)
        flat == Val([p \in 1..(Rows(m) * c) |-> m[((p - 1) \div c) + 1][((p - 1) % c) + 1]])
    IN  Val([n \in 1..((Rows(m) * c) \div 2) |-> <<flat[2 * n - 1], flat[2 * n]>>])

\* indices (models.py:78-81), from top_indices of shape [hidden_units, k]
MaskIndices(cfg, top_indices) ==
    LET k == TopKCount(cfg)
        top_k_unstacked == Unstack1(top_indices, k)
        row_indices == Val([n \in 1..k |-> Range(cfg.hidden_units)])
        combined_columns == Transpose(Interleave(row_indices, top_k_unstacked))
    IN  ReshapePairs(combined_columns)

\* tf.scatter_nd(indices, updates, shape): updates[n] is added at indices[n]
ScatterNd(indices, updates, shape) ==
    Val([r \in 1..shape[1] |->
        Val([c \in 1..shape[2] |->
            SumSeq(Val([n \in 1..Len(indices) |->
                IF indices[n] = <<r - 1, c - 1>> THEN updates[n] ELSE 0]))])])

\* mask (models.py:84-86)
MaskOf(cfg, encoded) ==
    LET k == TopKCount(cfg)
        top_indices == TopKIndices(Transpose(encoded), k)
        indices == MaskIndices(cfg, top_indices)
        updates == Val([n \in 1..(cfg.hidden_units * k) |-> 1])
        shape == <<cfg.hidden_units, cfg.batch_size>>
    IN  ScatterNd(indices, updates, shape)

\* sparse_encoded = self.encoded * tf.transpose(mask)
SparseOfBinarized(encoded, mask) ==
    Val([i \in 1..Rows(encoded) |->
        Val([j \in 1..Cols(encoded) |-> Sgn(encoded[i][j]) * mask[j][i]])])

SparseOf(encoded, mask) == Hadamard(encoded, Transpose(mask))

-----------------------------------------------------------------------------
(* The decoder and the loss *)

\* decode_W of _decode_layer: the transposed last encode matrix when the
\* weights are tied, the variable decode_W otherwise
DecodeWeightsUntransposed(st, cfg) ==
    IF cfg.tie_weights THEN st[GetLastEncodeLayerName(cfg)]
    ELSE st[DecodeW]

DecodeWeights(st, cfg) ==
    IF cfg.tie_weights THEN Transpose(st[GetLastEncodeLayerName(cfg)])
    ELSE st[DecodeW]

\* _decode_layer(input) = tf.matmul(input, decode_W) + decode_b
DecodeLayer(st, cfg, in) == AddBias(MatMul(in, DecodeWeights(st, cfg)), st[DecodeB])

\* self.loss = tf.reduce_sum(tf.square(self.decoded - self.input))
LossOf(decoded, x) ==
    SumSeq(Val([i \in 1..Rows(x) |->
        SumSeq(Val([j \in 1..Cols(x) |-> (decoded[i][j] - x[i][j]) * (decoded[i][j] - x[i][j])]))]))

\* The batch tensors of one evaluation of the training graph on the fed
\* array x: every node of models.py:66-91, each computed once
Graph(st, cfg, x) ==
    LET acts == Activations(st, cfg, x)
        encoded == acts[NumLayers(cfg) + 1]
        mask == MaskOf(cfg, encoded)
        sparse_encoded == SparseOf(encoded, mask)
        decoded == DecodeLayer(st, cfg, sparse_encoded)
    IN  [activations |-> acts, encoded |-> encoded, mask |-> mask,
         sparse_encoded |-> sparse_encoded, decoded |-> decoded,
         loss |-> LossOf(decoded, x)]

-----------------------------------------------------------------------------
(* optimizer(learning_rate).minimize(self.loss, self.global_step)           *)

\* the gradient of relu: it passes where the layer's output is positive
ReluGrad(dOut, out) ==
    Val([i \in 1..Rows(out) |-> Val([j \in 1..Cols(out) |-> IF out[i][j] > 0 THEN dOut[i][j] ELSE 0])])

\* Gradients of the loss with respect to the variables of the layers built
\* first..n-th, given dOut, the gradient with respect to the n-th layer's output
RECURSIVE EncoderGradients(_, _, _, _, _)
EncoderGradients(st, cfg, acts, n, dOut) ==
    IF n = 0 THEN <<>>
    ELSE LET num == LayerNums(cfg)[n]
             dZ == ReluGrad(dOut, acts[n + 1])
             gW == MatMul(Transpose(acts[n]), dZ)
             gb == ColSums(dZ, LayerDim(cfg, n))
             dIn == MatMul(dZ, Transpose(st[EncodeW(num)]))
         IN  (EncodeW(num) :> gW) @@ (EncodeB(num) :> gb)
                 @@ EncoderGradients(st, cfg, acts, n - 1, dIn)

\* d loss / d variable for every variable of the scope, g being the batch
\* tensors of the forward evaluation.  The mask is built
\* from integer indices and constant ones, so no gradient flows through it;
\* a tied decoder adds its gradient to the last encode matrix.
GradientsOf(st, cfg, x, g) ==
    LET dDecoded == Val([i \in 1..Rows(x) |-> Val([j \in 1..Cols(x) |-> 2 * (g.decoded[i][j] - x[i][j])])])
        gDecodeB == ColSums(dDecoded, cfg.input_dim)
        gDecodeW == MatMul(Transpose(g.sparse_encoded), dDecoded)
        dSparse == MatMul(dDecoded, Transpose(DecodeWeights(st, cfg)))
        dEncoded == Hadamard(dSparse, Transpose(g.mask))
        enc == EncoderGradients(st, cfg, g.activations, NumLayers(cfg), dEncoded)
        last == GetLastEncodeLayerName(cfg)
    IN  Tab([v \in DOMAIN st |->
            IF v = DecodeB THEN gDecodeB
            ELSE IF v = DecodeW THEN gDecodeW
            ELSE IF v = last /\ cfg.tie_weights THEN MatAdd(enc[v], Transpose(gDecodeW))
            ELSE enc[v]])

\* the gradients for the fed array x, from one evaluation of the graph
Gradients(st, cfg, x) == GradientsOf(st, cfg, x, Graph(st, cfg, x))

\* The update rule of the optimizer argument, for one scalar: a step of
\* learning_rate against the sign of the gradient (the size of step Adam,
\* the default, takes on its first application)
OptimizerUpdate(cfg, w, g) == w - cfg.learning_rate * Sgn(g)

\* The variables after the optimizer has been applied once
ApplyGradients(st, cfg, grads) ==
    Tab([v \in DOMAIN st |->
        IF v[1] \in {"encode_W", "decode_W"}
            THEN Val([i \in 1..Rows(st[v]) |->
                    Val([j \in 1..Cols(st[v]) |-> OptimizerUpdate(cfg, st[v][i][j], grads[v][i][j])])])
        ELSE Val([j \in 1..Len(st[v]) |-> OptimizerUpdate(cfg, st[v][j], grads[v][j])])])

\* minimize(loss, global_step) adds one to global_step with every application
IncrementGlobalStep(gs) == gs + 1

-----------------------------------------------------------------------------
(* Session.run on the graph _initialize_vars builds *)

\* the tensors each node is computed from
Inputs(node) ==
    CASE node = "encoded" -> {"input"}
      [] node = "mask" -> {"encoded"}
      [] node = "sparse_encoded" -> {"encoded", "mask"}
      [] node = "decoded" -> {"sparse_encoded"}
      [] node = "loss" -> {"decoded", "input"}
      [] node = "optimizer_op" -> {"loss"}
      [] OTHER -> {}

\* the nodes a run evaluates: the fetches and everything they are computed from
RECURSIVE Needed(_)
Needed(nodes) ==
    LET more == nodes \cup UNION {Inputs(n) : n \in nodes}
    IN  IF more = nodes THEN nodes ELSE Needed(more)

TensorNodes == {"encoded", "mask", "sparse_encoded", "decoded", "loss"}

\* the values of the tensors among nodes, for the fed array x
Evaluate(nodes, st, cfg, x) ==
    IF nodes \cap TensorNodes \subseteq {"encoded"}
        THEN Tab([n \in nodes \cap TensorNodes |-> Encoded(st, cfg, x)])
    ELSE LET g == Graph(st, cfg, x)
         IN  Tab([n \in nodes \cap TensorNodes |-> g[n]])

\* session.run(fetches, feed_dict={self.input: x}): the tensors evaluated
\* and the variables afterwards.  Every tensor is computed from the
\* variables as they are before the optimizer is applied.  top_k fails at
\* run time when the fed batch has fewer than k rows.
SessionRunReadsUpdated(st, gs, cfg, fetches, x) ==
    LET nodes == Needed(fetches)
        new == ApplyGradients(st, cfg, Gradients(st, cfg, x))
    IN  IF "mask" \in nodes /\ TopKCount(cfg) > Rows(x)
            THEN [error |-> "InvalidArgumentError", tensors |-> <<>>,
                  store |-> st, global_step |-> gs]
        ELSE IF "optimizer_op" \in nodes
            THEN [error |-> "none",
                  tensors |-> Evaluate(nodes, new, cfg, x),
                  store |-> new, global_step |-> IncrementGlobalStep(gs)]
        ELSE [error |-> "none",
              tensors |-> Evaluate(nodes, st, cfg, x),
              store |-> st, global_step |-> gs]

SessionRun(st, gs, cfg, fetches, x) ==
    LET nodes == Needed(fetches)
    IN  IF "mask" \in nodes /\ TopKCount(cfg) > Rows(x)
            THEN [error |-> "InvalidArgumentError", tensors |-> <<>>,
                  store |-> st, global_step |-> gs]
        ELSE IF "optimizer_op" \in nodes
            THEN [error |-> "none",
                  tensors |-> Evaluate(nodes, st, cfg, x),
                  store |-> ApplyGradients(st, cfg, Gradients(st, cfg, x)),
                  global_step |-> IncrementGlobalStep(gs)]
        ELSE [error |-> "none",
              tensors |-> Evaluate(nodes, st, cfg, x),
              store |-> st, global_step |-> gs]

-----------------------------------------------------------------------------
(* The arrays the caller feeds *)

\* the samples of the caller's data set, one row each
Dataset == << <<1, 0>>, <<0, 1>>, <<1, 1>>, <<2, 0>>, <<0, 0>>, <<2, 1>> >>

\* feature j of the n-th sample, the data set taken cyclically
Feature(n, j) ==
    LET row == Dataset[((n - 1) % Len(Dataset)) + 1]
    IN  IF j <= Len(row) THEN row[j] ELSE 0

\* the array of r consecutive samples from the s-th on, c features of each
Batch(s, r, c) == Val([i \in 1..r |-> Val([j \in 1..c |-> Feature(s + i - 1, j)])])

\* the batches the caller cuts from the data set
BatchStarts == {1, 2, 3}

\* rows and columns a wrongly shaped array has too many or too few
ShapeOffsets == {<<1, 0>>, <<-1, 0>>, <<0, -1>>, <<0, 1>>, <<1, -1>>}

\* the arrays fed to a model built with cfg: batches of the configured
\* shape, and arrays with a row or a column more or fewer
Feeds(cfg) ==
    {Batch(s, cfg.batch_size, cfg.input_dim) : s \in BatchStarts}
        \cup {Batch(1, cfg.batch_size + d[1], cfg.input_dim + d[2]) : d \in ShapeOffsets}

-----------------------------------------------------------------------------
(* The public operations *)

NoCall == [op |-> "none", input |-> <<>>, forward_only |-> FALSE]
NoReturn == [kind |-> "none"]

ValueError(dimension, got, expected) ==
    [kind |-> "ValueError", dimension |-> dimension, got |-> got, expected |-> expected]

\* the checks at the head of step (models.py:145-152)
StepShapeError(cfg, x) ==
    IF Rows(x) # cfg.batch_size
        THEN ValueError("batch size", Rows(x), cfg.batch_size)
    ELSE IF Cols(x) # cfg.input_dim
        THEN ValueError("dimensionality", Cols(x), cfg.input_dim)
    ELSE NoReturn

\* the check at the head of encode (models.py:178-181)
EncodeShapeErrorAsStep(cfg, x) == StepShapeError(cfg, x)

EncodeShapeError(cfg, x) ==
    IF Cols(x) # cfg.input_dim
        THEN ValueError("dimensionality", Cols(x), cfg.input_dim)
    ELSE NoReturn

\* what step fetches (models.py:154-161)
StepFetchesAlwaysTrain(forward_only) == {"decoded", "loss", "optimizer_op"}

StepFetches(forward_only) ==
    IF forward_only THEN {"decoded", "loss"} ELSE {"decoded", "loss", "optimizer_op"}

\* whether building the graph in _initialize_vars can succeed.  Nothing in
\* the source rejects any argument.  With k = 0 the lists handed to
\* tf.stack are empty and the library decides; otherwise the graph builds
\* (the batch dimension of the placeholder is None, so k > batch_size is
\* not seen until a batch is fed).
GraphBuilds(args) == IF TopKCount(args) = 0 THEN {TRUE, FALSE} ELSE {TRUE}

\* FullyConnectedWTA(...)
Construct(args) ==
    /\ state = "Uninitialized"
    /\ \E built \in GraphBuilds(args) :
        IF built
            THEN /\ state' = "Ready"
                 /\ config' = args
                 /\ store' = InitialStore(args)
                 /\ ret' = NoReturn
            ELSE /\ state' = "Failed"
                 /\ config' = args
                 /\ store' = store
                 /\ ret' = [kind |-> "TypeError"]
    /\ global_step' = 0
    /\ call' = [op |-> "__init__", input |-> <<>>, forward_only |-> FALSE]
    /\ UNCHANGED <<tensors, fit_calls>>

\* model.step(session, x, forward_only)
Step(x, forward_only) ==
    /\ state = "Ready"
    /\ forward_only \/ fit_calls < MaxSteps
    /\ call' = [op |-> "step", input |-> x, forward_only |-> forward_only]
    /\ state' = state
    /\ config' = config
    /\ LET err == StepShapeError(config, x)
       IN  IF err # NoReturn
               THEN /\ ret' = err
                    /\ tensors' = <<>>
                    /\ UNCHANGED <<store, global_step, fit_calls>>
           ELSE LET run == SessionRun(store, global_step, config, StepFetches(forward_only), x)
                IN  /\ fit_calls' = IF forward_only THEN fit_calls ELSE fit_calls + 1
                    /\ store' = run.store
                    /\ global_step' = run.global_step
                    /\ tensors' = run.tensors
                    /\ ret' = IF run.error # "none" THEN [kind |-> run.error]
                              ELSE [kind |-> "step", decoded |-> run.tensors["decoded"],
                                    loss |-> run.tensors["loss"]]

\* model.encode(session, x)
Encode(x) ==
    /\ state = "Ready"
    /\ call' = [op |-> "encode", input |-> x, forward_only |-> FALSE]
    /\ LET err == EncodeShapeError(config, x)
       IN  IF err # NoReturn
               THEN /\ ret' = err
                    /\ tensors' = <<>>
                    /\ UNCHANGED <<store, global_step>>
           ELSE LET run == SessionRun(store, global_step, config, {"encoded"}, x)
                IN  /\ store' = run.store
                    /\ global_step' = run.global_step
                    /\ tensors' = run.tensors
                    /\ ret' = IF run.error # "none" THEN [kind |-> run.error]
                              ELSE [kind |-> "encode", encoded |-> run.tensors["encoded"]]
    /\ UNCHANGED <<state, config, fit_calls>>

\* fake_input = 1e15 * tf.eye(self.hidden_units); 1e15 is scaled down to
\* 10^6 here, which still dwarfs every bias the model reaches
ProbeScale == 1000000

FakeInput(cfg) ==
    Val([i \in 1..cfg.hidden_units |-> Val([j \in 1..cfg.hidden_units |-> ProbeScale * Eye(cfg.hidden_units)[i][j]])])

\* model.get_dictionary(session): the decode layer alone, applied to the
\* probe with reuse=True, so on the variables the scope already holds
GetDictionary ==
    /\ state = "Ready"
    /\ call' = [op |-> "get_dictionary", input |-> <<>>, forward_only |-> FALSE]
    /\ ret' = [kind |-> "dictionary", dictionary |-> DecodeLayer(store, config, FakeInput(config))]
    /\ tensors' = <<>>
    /\ UNCHANGED <<state, config, store, global_step, fit_calls>>

-----------------------------------------------------------------------------
(* The specification *)

Init ==
    /\ state = "Uninitialized"
    /\ config = NoConfig
    /\ store = <<>>
    /\ global_step = 0
    /\ call = NoCall
    /\ tensors = <<>>
    /\ ret = NoReturn
    /\ fit_calls = 0

Next ==
    \/ \E args \in ConstructorArgs : Construct(args)
    \/ state = "Ready" /\ \E x \in Feeds(config), forward_only \in BOOLEAN : Step(x, forward_only)
    \/ state = "Ready" /\ \E x \in Feeds(config) : Encode(x)
    \/ GetDictionary

Spec == Init /\ [][Next]_vars

-----------------------------------------------------------------------------
(* Properties *)

\* the configurations the specification calls valid
ValidConfig(cfg) ==
    /\ cfg.input_dim > 0 /\ cfg.hidden_units > 0 /\ cfg.encode_layers >= 1
    /\ (cfg.sparsity[1] * cfg.batch_size) \div cfg.sparsity[2] > 0
    /\ (cfg.sparsity[1] * cfg.batch_size) \div cfg.sparsity[2] <= cfg.batch_size

\* floor(sparsity * batch_size) of the model built
FloorK == (config.sparsity[1] * config.batch_size) \div config.sparsity[2]

\* the last call was a step that returned (decoded, loss)
StepReturned == state = "Ready" /\ call.op = "step" /\ ret.kind = "step"

Units == 1..config.hidden_units
Samples == 1..config.batch_size

\* C1: on a validly configured model the mask a step builds has shape
\* [hidden_units, batch_size], holds only zeros and ones, and each of its
\* rows holds exactly k = floor(sparsity * batch_size) ones and
\* batch_size - k zeros; with k = batch_size it is all ones.
C1_MaskRowsHoldKOnes ==
    (StepReturned /\ ValidConfig(config)) =>
        LET mask == tensors["mask"]
        IN  /\ Shape(mask) = <<config.hidden_units, config.batch_size>>
            /\ \A h \in Units :
                /\ Len(mask[h]) = config.batch_size
                /\ \A i \in Samples : mask[h][i] \in {0, 1}
                /\ Cardinality({i \in Samples : mask[h][i] = 1}) = FloorK
                /\ Cardinality({i \in Samples : mask[h][i] = 0}) = config.batch_size - FloorK
            /\ (FloorK = config.batch_size =>
                    \A h \in Units : \A i \in Samples : mask[h][i] = 1)

\* C1 witness: a step on a valid model with 0 < k < batch_size in which a
\* unit's activations tie across the selection boundary
C1_Witness ==
    /\ StepReturned /\ ValidConfig(config) /\ FloorK < config.batch_size
    /\ \E h \in Units : \E i, j \in Samples :
        /\ tensors["mask"][h][i] = 1 /\ tensors["mask"][h][j] = 0
        /\ tensors["encoded"][i][h] = tensors["encoded"][j][h]

\* the k largest entries of a sequence, found by repeatedly taking a maximum
RECURSIVE SumOfLargest(_, _)
SumOfLargest(values, k) ==
    IF k = 0 \/ values = <<>> THEN 0
    ELSE LET m == CHOOSE i \in 1..Len(values) : \A j \in 1..Len(values) : values[i] >= values[j]
         IN  values[m] + SumOfLargest(SubSeq(values, 1, m - 1) \o SubSeq(values, m + 1, Len(values)), k - 1)

\* C2: for every hidden unit the positions where its mask row is 1 are
\* positions of its k largest activations across the batch (every selected
\* activation is >= every non-selected one, and the selected activations
\* add up to the k largest of the column sorted by brute force), and the
\* coordinate list pairs every selected batch index with the unit it was
\* selected for.
C2_MaskSelectsLargest ==
    StepReturned =>
        LET mask == tensors["mask"]
            encoded == tensors["encoded"]
            top == TopKIndices(Transpose(encoded), FloorK)
            indices == MaskIndices(config, top)
        IN  /\ \A h \in Units : \A i, j \in Samples :
                (mask[h][i] = 1 /\ mask[h][j] = 0) => encoded[i][h] >= encoded[j][h]
            /\ \A h \in Units :
                SumSeq([i \in Samples |-> mask[h][i] * encoded[i][h]])
                    = SumOfLargest([i \in Samples |-> encoded[i][h]], FloorK)
            /\ Len(indices) = config.hidden_units * FloorK
            /\ \A h \in Units : \A n \in 1..FloorK :
                indices[(h - 1) * FloorK + n] = <<h - 1, top[h][n]>>
            /\ \A h \in Units : \A i \in Samples :
                mask[h][i] = 1 <=> \E n \in 1..FloorK : top[h][n] = i - 1

\* C2 witness: after training, a unit whose selected activation is strictly
\* larger than a positive activation that was not selected
C2_Witness ==
    /\ StepReturned /\ fit_calls > 0 /\ ValidConfig(config)
    /\ \E h \in Units : \E i, j \in Samples :
        /\ tensors["mask"][h][i] = 1 /\ tensors["mask"][h][j] = 0
        /\ tensors["encoded"][i][h] > tensors["encoded"][j][h]
        /\ tensors["encoded"][j][h] > 0

\* C3 as stated: sparse_encoded[i,j] = encoded[i,j] exactly when
\* mask[j,i] = 1, and sparse_encoded[i,j] = 0 otherwise.
C3_EqualExactlyWhenSelected ==
    StepReturned =>
        \A i \in Samples : \A j \in Units :
            /\ (tensors["sparse_encoded"][i][j] = tensors["encoded"][i][j])
                    <=> (tensors["mask"][j][i] = 1)
            /\ tensors["mask"][j][i] # 1 => tensors["sparse_encoded"][i][j] = 0

\* C3 amended: sparse_encoded[i,j] = encoded[i,j] where mask[j,i] = 1 and
\* sparse_encoded[i,j] = 0 where mask[j,i] = 0; so the two are equal exactly
\* when mask[j,i] = 1 or encoded[i,j] = 0 (ReLU gives exact zeros).
C3_SelectedKeptOthersZeroed ==
    StepReturned =>
        \A i \in Samples : \A j \in Units :
            /\ tensors["mask"][j][i] \in {0, 1}
            /\ tensors["mask"][j][i] = 1 =>
                    tensors["sparse_encoded"][i][j] = tensors["encoded"][i][j]
            /\ tensors["mask"][j][i] = 0 => tensors["sparse_encoded"][i][j] = 0
            /\ (tensors["sparse_encoded"][i][j] = tensors["encoded"][i][j])
                    <=> (tensors["mask"][j][i] = 1 \/ tensors["encoded"][i][j] = 0)

\* C3 witness: a selected activation larger than 1 kept at its magnitude
\* and a positive activation that was not selected set to 0
C3_Witness ==
    /\ StepReturned
    /\ \E i \in Samples : \E j \in Units :
        /\ tensors["mask"][j][i] = 1 /\ tensors["encoded"][i][j] > 1
        /\ tensors["sparse_encoded"][i][j] = tensors["encoded"][i][j]
    /\ \E i \in Samples : \E j \in Units :
        /\ tensors["mask"][j][i] = 0 /\ tensors["encoded"][i][j] > 0
        /\ tensors["sparse_encoded"][i][j] = 0

\* C4: a forward-only step on a correctly shaped array leaves every
\* variable of the scope and global_step as they were, and when it repeats
\* the call made just before it, it returns what that call returned.
C4_ForwardOnlyRepeatsAndKeeps ==
    [][(call'.op = "step" /\ call'.forward_only
            /\ StepShapeError(config, call'.input) = NoReturn) =>
        /\ store' = store
        /\ global_step' = global_step
        /\ (call = call' => ret' = ret)]_vars

\* C4 witness: a forward-only step that returned (decoded, loss) on a model
\* that has been trained
C4_Witness ==
    /\ StepReturned /\ call.forward_only /\ fit_calls > 0
    /\ store # InitialStore(config)

\* C5 as stated: global_step equals the number of step calls with
\* forward_only=False that passed shape validation.
C5_GlobalStepCountsTrainingCalls ==
    state = "Ready" => global_step = fit_calls

\* C5 on the configurations the specification admits: there global_step
\* counts the validated training calls, one by one, and never goes down
C5_OnValidConfigs ==
    [][(state' = "Ready" /\ ValidConfig(config')) =>
        /\ global_step' = fit_calls'
        /\ global_step' >= global_step
        /\ (global_step' # global_step =>
                /\ global_step' = global_step + 1
                /\ call'.op = "step" /\ ~call'.forward_only /\ ret'.kind = "step")]_vars

\* C6 as stated: a step on a wrongly shaped array raises the error that
\* names the dimension and both values, changes nothing, and the step made
\* next on a correctly shaped array returns (decoded, loss).
C6_RejectedThenRetrySucceeds ==
    [][/\ (call'.op = "step" /\ Rows(call'.input) # config.batch_size) =>
            /\ ret' = ValueError("batch size", Rows(call'.input), config.batch_size)
            /\ store' = store /\ global_step' = global_step /\ state' = "Ready"
       /\ (call'.op = "step" /\ Rows(call'.input) = config.batch_size
                /\ Cols(call'.input) # config.input_dim) =>
            /\ ret' = ValueError("dimensionality", Cols(call'.input), config.input_dim)
            /\ store' = store /\ global_step' = global_step /\ state' = "Ready"
       /\ (call.op = "step" /\ ret.kind = "ValueError" /\ call'.op = "step"
                /\ Shape(call'.input) = <<config.batch_size, config.input_dim>>) =>
            ret'.kind = "step"]_vars

\* C6 without the retry: the rejection itself, on every model
C6_RejectionLeavesState ==
    [][/\ (call'.op = "step" /\ Rows(call'.input) # config.batch_size) =>
            /\ ret' = ValueError("batch size", Rows(call'.input), config.batch_size)
            /\ store' = store /\ global_step' = global_step /\ state' = "Ready"
       /\ (call'.op = "step" /\ Rows(call'.input) = config.batch_size
                /\ Cols(call'.input) # config.input_dim) =>
            /\ ret' = ValueError("dimensionality", Cols(call'.input), config.input_dim)
            /\ store' = store /\ global_step' = global_step /\ state' = "Ready"]_vars

\* C7 as stated: a model built from an invalid configuration never reaches
\* Ready.
C7_InvalidConfigNeverReady ==
    (call.op # "none" /\ ~ValidConfig(config)) => state # "Ready"

C9_TrainingReturnsForwardValues ==
    [][(call'.op = "step" /\ ~call'.forward_only /\ ret'.kind = "step") =>
        LET fwd == Graph(store, config, call'.input)
        IN  /\ ret'.decoded = fwd.decoded
            /\ ret'.loss = fwd.loss
            /\ store' = ApplyGradients(store, config, Gradients(store, config, call'.input))]_vars

\* C9 witness: a training step whose update changed what the model decodes
\* for the array it was fed
C9_Witness ==
    /\ StepReturned /\ ~call.forward_only
    /\ Graph(store, config, call.input).decoded # ret.decoded

\* C10: with tied weights there is no decode_W variable; step and
\* get_dictionary both decode with the transpose of the current
\* encode_W of the last layer, and get_dictionary returns a
\* [hidden_units, input_dim] array and changes no variable.
C10_TiedDecoderReadsLastEncoder ==
    [][(state' = "Ready" /\ config'.tie_weights) =>
        LET W == Transpose(store[EncodeW(config'.encode_layers - 1)])
        IN  /\ DecodeW \notin DOMAIN store'
            /\ call'.op = "get_dictionary" =>
                /\ ret'.kind = "dictionary"
                /\ Shape(ret'.dictionary) = <<config.hidden_units, config.input_dim>>
                /\ \A h \in 1..config.hidden_units : \A d \in 1..config.input_dim :
                    ret'.dictionary[h][d] = ProbeScale * W[h][d] + store[DecodeB][d]
                /\ store' = store /\ global_step' = global_step
            /\ (call'.op = "step" /\ ret'.kind = "step") =>
                ret'.decoded = AddBias(MatMul(tensors'["sparse_encoded"], W), store[DecodeB])]_vars

\* C10 witness: a dictionary fetched from a tied model whose last encode
\* matrix training has changed and made asymmetric
C10_Witness ==
    /\ state = "Ready" /\ config.tie_weights /\ ret.kind = "dictionary"
    /\ store[EncodeW(config.encode_layers - 1)]
            # InitialStore(config)[EncodeW(config.encode_layers - 1)]
    /\ store[EncodeW(config.encode_layers - 1)]
            # Transpose(store[EncodeW(config.encode_layers - 1)])

====
